---- MODULE Spec2Model ----
(***************************************************************************)
(* astrosource/comparison.py as a state machine.                           *)
(*                                                                         *)
(* find_comparisons:  remove_stars_targets, the variability rejection      *)
(* loop and final_candidate_catalogue (specification Spec, and SpecRST     *)
(* with a wider choice of variable-star catalogue answers).                *)
(* find_comparisons_calibrated:  the catalogue search with catalogue_call  *)
(* (specification SpecCal), and the calibration standards, the zero-point  *)
(* of each frame and the calibration uncertainty (specification SpecZP).   *)
(*                                                                         *)
(* Numbers.  Angles are integers in units of half an arcsecond.            *)
(* Magnitudes and variability scores are integers in millimagnitudes; the  *)
(* float NaN is the value NaN.  The multipliers stdMultiplier and          *)
(* variabilityMultiplier are in tenths (25 is 2.5), and variabilityMax is  *)
(* therefore in tenths of a millimagnitude.                                *)
(***************************************************************************)
EXTENDS Integers, Sequences, FiniteSets, TLC

\* ------------------------------------------------------------- bounds
\* Largest number of rows of a photometry file (stars per frame).
MaxStars == 3

\* Largest number of entries the variable-star catalogue answers with (SpecRST).
MaxVsx == 2

\* Largest number of rows a photometric catalogue answers with (SpecCal).
MaxRows == 4

\* Flux budget of the ensemble, in counts (thresholdCounts of find_comparisons).
ThresholdCounts == 3

\* ---------------------------------------------------------- constants
\* One arcsecond, in the model's angle unit (astropy.units.arcsecond).
arcsecond == 2

\* numpy.nan: every ordering comparison with it is false, and so is ==.
NaN == -1

\* 0.002 mag: below this minimum score the rejection is skipped.
MinVariability == 2

\* 0.0014 degree (5.04"): the half width of the box around a target, in half
\* arcseconds; a difference is "> 0.0014" when it is more than 10 units
TargetBox == 10

\* used frames (usedImages.txt); the first is the reference frame
FrameNames == <<"ref", "second">>

NumFrames == Len(FrameNames)

\* flux counts a star can have in a frame (column 4 of a photometry row)
FluxVals == {0, 1, 2}

\* values of the parameter stdMultiplier, in tenths
StdMultipliers == {20, 25}

\* values of the parameter variabilityMultiplier, in tenths
VariabilityMultipliers == {25}

\* values of the parameter acceptDistance, in half arcseconds (1.0", 2.0")
AcceptDistances == {arcsecond, 2 * arcsecond}

\* right ascension of row j of the photometry files: the rows are 5" apart
StarRa(j) == 10 * (j - 1)

VARIABLES
    pc,             \* where the run is: "start", "loop", "fcc", "select", "done",
                    \* "cal_select", "crowd", "cal_matched", "error",
                    \* "cal_load", "cal_search", "cal_frames", "cal_done"
    err,            \* the exception that ended the run, "" if none
    photlist,       \* argument photlist: the stars of the frames, row-aligned
    args,           \* the other arguments of find_comparisons
    vsx,            \* the answer of Vizier.query_region(..., catalog='VSX')
    varStarRejectBound, \* whether the name varStarReject is bound when line 249 runs
    targetFile,     \* the target list after its NaN rows were deleted
    comparisons,    \* the candidate stars (all frames share the rows)
    fileCount,      \* per frame: the ensemble counts, fixed before the loop
    starRejecter,   \* the rejection mask (TRUE = keep)
    oldrejects,     \* the mask of the previous iteration
    stdCompStar,    \* the variability scores of the last evaluation
    sortStars,      \* the records (ra, dec, score) of the last evaluation
    variabilityMax, \* min(stdCompStar) * variabilityMultiplier, in tenths of mmag
    iterations,     \* evaluations of the scores so far
    stdCompsCsv,    \* stdComps.csv
    sortorder,      \* final_candidate_catalogue: the argsort of the scores
    visited,        \* final_candidate_catalogue: candidates walked so far
    tempCountCounter,
    finalCountCounter,
    compFile,       \* the accepted comparisons
    compsUsedCsv,   \* compsUsed.csv
    num_comparisons, \* the second value find_comparisons returns, -1 until then
    \* find_comparisons_calibrated
    calArgs,        \* its arguments
    catIdx,         \* catalogues.items(): how many catalogues the loop has passed
    queried,        \* the calls of catalogue_call so far: catalogue, outcome
    resp,           \* catalogue_call: the catalogue table being filtered
    crowdIter,      \* catalogue_call: passes of the crowding loop
    coords,         \* the result of the catalogue search
    cat_used,
    max_sep,
    compUsedFile,   \* the name compUsedFile: whether it is bound, and its rows
    calibStands,    \* the calibration standards
    calibStandsCsv, \* calibStands.csv
    frame,          \* "for file in fileList": frames calibrated so far
    tempZP,         \* the zero-point of each frame calibrated so far
    calibCompUsed,  \* per frame, the calibrated magnitudes of the comparisons used
    calibrationErrors, \* calibrationErrors.txt
    calibCompsUsedCsv  \* calibCompsUsed.csv

\* the variables of find_comparisons
fcVars == <<photlist, args, vsx, varStarRejectBound, targetFile, comparisons,
            fileCount, starRejecter, oldrejects, stdCompStar, sortStars, variabilityMax,
            iterations, stdCompsCsv, sortorder, visited, tempCountCounter,
            finalCountCounter, compFile, compsUsedCsv, num_comparisons>>

\* the variables of find_comparisons_calibrated
calVars == <<calArgs, catIdx, queried, resp, crowdIter, coords, cat_used, max_sep>>

\* the variables of the calibration proper (lines 436-579)
zpVars == <<compUsedFile, calibStands, calibStandsCsv, frame, tempZP, calibCompUsed,
            calibrationErrors, calibCompsUsedCsv>>

vars == <<pc, err, fcVars, calVars, zpVars>>

\* ------------------------------------------------------------ helpers
Abs(x) == IF x < 0 THEN -x ELSE x

RECURSIVE SumSeq(_)
SumSeq(s) == IF s = <<>> THEN 0 ELSE Head(s) + SumSeq(Tail(s))

\* s[mask]: numpy boolean-mask indexing of rows (the lengths agree)
RECURSIVE MaskRows(_, _)
MaskRows(s, mask) ==
    IF s = <<>> THEN <<>>
    ELSE (IF Head(mask) THEN <<Head(s)>> ELSE <<>>) \o MaskRows(Tail(s), Tail(mask))

RECURSIVE ISqrtIn(_, _, _)
ISqrtIn(n, lo, hi) ==
    IF lo >= hi THEN lo
    ELSE LET mid == (lo + hi + 1) \div 2
         IN  IF mid * mid <= n THEN ISqrtIn(n, mid, hi) ELSE ISqrtIn(n, lo, mid - 1)

\* floor of the square root
ISqrt(n) == ISqrtIn(n, 0, IF n < 46340 THEN n ELSE 46340)

\* numpy.log10 on the counts that occur, in units of 1e-4 (rounded)
Log10Table == <<0, 3010, 4771, 6021, 6990, 7782, 8451, 9031, 9542, 10000,
                10414, 10792, 11139, 11461, 11761, 12041, 12304, 12553, 12788, 13010>>

IsNaN(x) == x = NaN

\* a < b and a > b on floats: false as soon as one side is NaN
Lt(a, b) == ~IsNaN(a) /\ ~IsNaN(b) /\ a < b

Gt(a, b) == ~IsNaN(a) /\ ~IsNaN(b) /\ a > b

\* numpy.std of finitely many finite values: the population standard deviation
StdPop(xs) ==
    LET n  == Len(xs)
        s1 == SumSeq(xs)
        s2 == SumSeq([i \in 1..n |-> xs[i] * xs[i]])
    IN  ISqrt(n * s2 - s1 * s1) \div n

\* numpy.std: NaN as soon as one value is NaN
Std(xs) == IF \E i \in 1..Len(xs) : IsNaN(xs[i]) THEN NaN ELSE StdPop(xs)

\* numpy.min: NaN as soon as one value is NaN
Min(xs) ==
    IF \E i \in 1..Len(xs) : IsNaN(xs[i]) THEN NaN
    ELSE CHOOSE m \in {xs[i] : i \in 1..Len(xs)} : \A i \in 1..Len(xs) : m <= xs[i]

\* x.argsort() on a short array: ascending, ties in index order, NaN last
Before(xs, i, j) ==
    \/ ~IsNaN(xs[i]) /\ IsNaN(xs[j])
    \/ ~IsNaN(xs[i]) /\ ~IsNaN(xs[j]) /\ xs[i] < xs[j]
    \/ (xs[i] = xs[j]) /\ i < j

Argsort(xs) ==
    LET n == Len(xs)
        rank(i) == Cardinality({j \in 1..n : Before(xs, j, i)}) + 1
    IN  [k \in 1..n |-> CHOOSE i \in 1..n : rank(i) = k]

\* twice numpy.median of finite values
Median2(xs) ==
    LET n == Len(xs)
        o == Argsort(xs)
    IN  IF n % 2 = 1 THEN 2 * xs[o[(n + 1) \div 2]]
        ELSE xs[o[n \div 2]] + xs[o[n \div 2 + 1]]

\* square of the angular separation of two positions (small field, flat sky)
Separation2(a, b) ==
    (a.ra - b.ra) * (a.ra - b.ra) + (a.dec - b.dec) * (a.dec - b.dec)

\* coord.match_to_catalog_sky(catalog): index of the nearest row of catalog
NearestIdx(coord, catalog) ==
    CHOOSE i \in 1..Len(catalog) :
        \A k \in 1..Len(catalog) :
            \/ Separation2(coord, catalog[i]) < Separation2(coord, catalog[k])
            \/ Separation2(coord, catalog[i]) = Separation2(coord, catalog[k]) /\ i <= k

\* coords = []
NoCoords == [set |-> FALSE, cat_name |-> "", rows |-> <<>>]

\* a file that was not written, and savetxt(file, rows)
NoFile == [written |-> FALSE, rows |-> <<>>]

Savetxt(rows) == [written |-> TRUE, rows |-> rows]

\* ------------------------------------------- calculate_comparison_variation
\* 2.5 * log10(flux / count) is -inf, inf or nan for a non-positive flux or count
NonFinite(flux, count) == flux <= 0 \/ count <= 0

\* 2.5 * log10(flux / count) in mmag, for positive flux and count
Calc(flux, count) == (25 * (Log10Table[flux] - Log10Table[count])) \div 100

\* std(compDiffMags) == np.nan
EqNaN(x) == FALSE

\* the score of one star: std over the frames of its differential magnitudes; the
\* standard deviation of a sample holding -inf, inf or nan is nan
Variation(star, counts) ==
    IF \E q \in 1..NumFrames : NonFinite(star.flux[q], counts[q]) THEN NaN
    ELSE StdPop([q \in 1..NumFrames |-> Calc(star.flux[q], counts[q])])

CalcStdCompStar(comps, counts) == [j \in 1..Len(comps) |-> Variation(comps[j], counts)]

\* mutant: the records are built from the unfiltered photometry list
CalcSortStarsStale(comps, counts) ==
    [j \in 1..Len(photlist) |->
        [ra |-> photlist[j].ra, dec |-> photlist[j].dec,
         std |-> Variation(photlist[j], counts)]]

CalcSortStars(comps, counts) ==
    [j \in 1..Len(comps) |->
        [ra |-> comps[j].ra, dec |-> comps[j].dec, std |-> Variation(comps[j], counts)]]

\* ------------------------------------------------- remove_stars_targets
\* delete the rows of the target list whose first column is NaN
DropNaNTargets(targets) ==
    MaskRows(targets, [z \in 1..Len(targets) |-> ~IsNaN(targets[z].ra)])

\* d2dcomp.arcsecond.any() < max_sep.value: .any() is the truth value of the
\* separation (False only for 0.0), and the bool is compared as 0 or 1 arcsecond
VariableStarMatch(sep2, acceptDistance) ==
    (IF sep2 # 0 THEN arcsecond ELSE 0) < acceptDistance

\* the mask after the catalogue entries 1..t were looked at
RECURSIVE VsxMask(_, _, _, _)
VsxMask(compFile0, entries, t, acceptDistance) ==
    IF t = 0 THEN [i \in 1..Len(compFile0) |-> TRUE]
    ELSE LET prev    == VsxMask(compFile0, entries, t - 1, acceptDistance)
             idxcomp == NearestIdx(entries[t], compFile0)
         IN  IF VariableStarMatch(Separation2(entries[t], compFile0[idxcomp]), acceptDistance)
             THEN [prev EXCEPT ![idxcomp] = FALSE]
             ELSE prev

\* whether some catalogue entry matches, so that varStarReject.append(t) runs
AnyVsxMatch(compFile0, entries, acceptDistance) ==
    \E t \in 1..Len(entries) :
        VariableStarMatch(
            Separation2(entries[t], compFile0[NearestIdx(entries[t], compFile0)]),
            acceptDistance)

\* np.ndarray.sum(comparisons, axis=1)[:,4]
FileCount(comps) ==
    [q \in 1..NumFrames |-> SumSeq([j \in 1..Len(comps) |-> comps[j].flux[q]])]

\* mutant: the previous mask starts equal to the mask of a pass that rejects nothing
OldRejectsAllKept(n) == [i \in 1..n |-> TRUE]

\* oldrejects = [False for i in range(comparisons.shape[1])]
OldRejects(n) == [i \in 1..n |-> FALSE]

RemoveStarsTargets ==
    /\ pc = "start"
    /\ targetFile' = DropNaNTargets(args.targets)
    /\ IF AnyVsxMatch(photlist, vsx, args.acceptDistance) /\ ~varStarRejectBound
       THEN \* line 249: the name varStarReject is not defined
            /\ pc' = "error"
            /\ err' = "NameError"
            /\ UNCHANGED <<comparisons, fileCount, starRejecter, oldrejects>>
       ELSE IF Len(photlist) = 1
       THEN \* lines 262-269: a single comparison star
            /\ pc' = "error"
            /\ err' = "AstrosourceException"
            /\ UNCHANGED <<comparisons, fileCount, starRejecter, oldrejects>>
       ELSE LET mask == VsxMask(photlist, vsx, Len(vsx), args.acceptDistance)
                kept == MaskRows(photlist, mask)
            IN  /\ comparisons' = kept
                /\ fileCount' = FileCount(kept)
                /\ starRejecter' = [i \in 1..Len(kept) |-> TRUE]
                /\ oldrejects' = OldRejects(Len(kept))
                /\ pc' = "loop"
                /\ err' = ""
    /\ UNCHANGED <<photlist, args, vsx, varStarRejectBound, stdCompStar, sortStars,
                   variabilityMax, iterations, stdCompsCsv, sortorder, visited,
                   tempCountCounter, finalCountCounter, compFile, compsUsedCsv,
                   num_comparisons>>
    /\ UNCHANGED calVars
    /\ UNCHANGED zpVars

\* ------------------------------------------ find_comparisons: the loop
\* stdComp > (stdCompMed + (stdMultiplier*stdCompStd)) or isnan(stdComp)
TooVariable(stdComp, scores, stdMultiplier) ==
    \/ /\ ~IsNaN(stdComp)
       /\ ~IsNaN(Std(scores))
       /\ 20 * stdComp > 10 * Median2(scores) + 2 * stdMultiplier * Std(scores)
    \/ IsNaN(stdComp)

\* the body of "if min(stdCompStar) > 0.002": starRejecter[j] = False for the scores
\* that are too high; j counts the rows of the current comparisons
Reject(rejecter, scores, stdMultiplier) ==
    [i \in 1..Len(rejecter) |->
        IF i <= Len(scores) /\ TooVariable(scores[i], scores, stdMultiplier)
        THEN FALSE ELSE rejecter[i]]

\* min(stdCompStar) * variabilityMultiplier
VariabilityMax(scores, variabilityMultiplier) ==
    IF IsNaN(Min(scores)) THEN NaN ELSE Min(scores) * variabilityMultiplier

Iterate ==
    /\ pc = "loop"
    /\ iterations' = iterations + 1
    /\ IF Len(comparisons) = 0
       THEN \* min() of an empty list
            /\ pc' = "error"
            /\ err' = "ValueError"
            /\ stdCompStar' = <<>>
            /\ sortStars' = <<>>
            /\ UNCHANGED <<variabilityMax, starRejecter, oldrejects, comparisons>>
       ELSE LET scores == CalcStdCompStar(comparisons, fileCount)
                rej    == IF Gt(Min(scores), MinVariability)
                          THEN Reject(starRejecter, scores, args.stdMultiplier)
                          ELSE starRejecter
            IN  /\ stdCompStar' = scores
                /\ sortStars' = CalcSortStars(comparisons, fileCount)
                /\ variabilityMax' = VariabilityMax(scores, args.variabilityMultiplier)
                /\ starRejecter' = rej
                /\ IF \E j \in 1..Len(scores) : EqNaN(scores[j])
                   THEN \* sys.exit()
                        /\ pc' = "error"
                        /\ err' = "SystemExit"
                        /\ UNCHANGED <<oldrejects, comparisons>>
                   ELSE IF Len(rej) # Len(comparisons)
                   THEN \* c[starRejecter]: the boolean index does not match the rows
                        /\ pc' = "error"
                        /\ err' = "IndexError: boolean index did not match"
                        /\ UNCHANGED <<oldrejects, comparisons>>
                   ELSE /\ comparisons' = MaskRows(comparisons, rej)
                        /\ IF rej = oldrejects
                           THEN /\ pc' = "fcc"
                                /\ UNCHANGED oldrejects
                           ELSE /\ pc' = "loop"
                                /\ oldrejects' = rej
                        /\ UNCHANGED err
    /\ UNCHANGED <<photlist, args, vsx, varStarRejectBound, targetFile, fileCount,
                   stdCompsCsv, sortorder, visited, tempCountCounter,
                   finalCountCounter, compFile, compsUsedCsv, num_comparisons>>
    /\ UNCHANGED calVars
    /\ UNCHANGED zpVars

\* --------------------------------------------- final_candidate_catalogue
\* lines 123-145: stdComps.csv, the sort order, the empty result
FccBegin ==
    /\ pc = "fcc"
    /\ stdCompsCsv' = Savetxt(sortStars)
    /\ sortorder' = Argsort([j \in 1..Len(sortStars) |-> sortStars[j].std])
    /\ compFile' = <<>>
    /\ tempCountCounter' = 0
    /\ finalCountCounter' = 0
    /\ visited' = 0
    /\ pc' = "select"
    /\ UNCHANGED <<err, photlist, args, vsx, varStarRejectBound, targetFile, comparisons,
                   fileCount, starRejecter, oldrejects, stdCompStar, sortStars,
                   variabilityMax, iterations, compsUsedCsv, num_comparisons>>
    /\ UNCHANGED calVars
    /\ UNCHANGED zpVars

\* if len(sortorder) == 1 or sortStars[j][2] < variabilityMax
BelowCeiling(order, score, varMax) == Len(order) = 1 \/ Lt(10 * score, varMax)

\* if tempCountCounter < thresholdCounts
BudgetLeft(counter, thresholdCounts) == counter < thresholdCounts

\* mutant: the counts are added inside the acceptance branch only
AddCountsIfAccepted(counter, flux, accepted) ==
    IF accepted THEN counter + flux ELSE counter

\* tempCountCounter=add(tempCountCounter,referenceFrame[idx][4])
AddCounts(counter, flux, accepted) == counter + flux

\* one pass of "for j in sortorder" (lines 146-158)
SelectStep ==
    /\ pc = "select"
    /\ visited < Len(sortorder)
    /\ IF Len(sortStars) = 1
       THEN \* line 138 wrapped the one-row array in a list: sortStars[j][1] is
            \* index 1 of an axis of size 1
            /\ pc' = "error"
            /\ err' = "IndexError: index 1 is out of bounds"
            /\ UNCHANGED <<visited, compFile, tempCountCounter, finalCountCounter>>
       ELSE LET j        == sortorder[visited + 1]
                idx      == NearestIdx(sortStars[j], comparisons)
                flux     == comparisons[idx].flux[1]
                accepted == /\ BudgetLeft(tempCountCounter, args.thresholdCounts)
                            /\ BelowCeiling(sortorder, sortStars[j].std, variabilityMax)
            IN  /\ compFile' = IF accepted THEN Append(compFile, sortStars[j]) ELSE compFile
                /\ finalCountCounter' =
                       IF accepted THEN finalCountCounter + flux ELSE finalCountCounter
                /\ tempCountCounter' = AddCounts(tempCountCounter, flux, accepted)
                /\ visited' = visited + 1
                /\ UNCHANGED <<pc, err>>
    /\ UNCHANGED <<photlist, args, vsx, varStarRejectBound, targetFile, comparisons,
                   fileCount, starRejecter, oldrejects, stdCompStar, sortStars,
                   variabilityMax, iterations, stdCompsCsv, sortorder, compsUsedCsv,
                   num_comparisons>>
    /\ UNCHANGED calVars
    /\ UNCHANGED zpVars

\* lines 160-170 and the return of find_comparisons
FccEnd ==
    /\ pc = "select"
    /\ visited = Len(sortorder)
    /\ compsUsedCsv' = Savetxt(compFile)
    /\ num_comparisons' = Len(compFile)
    /\ pc' = "done"
    /\ UNCHANGED <<err, photlist, args, vsx, varStarRejectBound, targetFile, comparisons,
                   fileCount, starRejecter, oldrejects, stdCompStar, sortStars,
                   variabilityMax, iterations, stdCompsCsv, sortorder, visited,
                   tempCountCounter, finalCountCounter, compFile>>
    /\ UNCHANGED calVars
    /\ UNCHANGED zpVars

\* ------------------------------------------------------- catalogue_call
\* FILTERS[filterCode]: the catalogues of a filter, in the order of the table
Catalogues(filterCode) ==
    IF filterCode \in {"B", "V"} THEN <<"APASS">>
    ELSE <<"SDSS", "SkyMapper", "PanSTARRS">>

\* "Filter out bad data from catalogues": APASS rows are all kept; good is the
\* catalogue's own test (Qual in 52, 60, 61; Q == 3; flags == 0)
QualityFilter(cat_name, rows) ==
    IF cat_name = "APASS" THEN rows
    ELSE MaskRows(rows, [i \in 1..Len(rows) |-> rows[i].good])

\* resp[where(|ra - tg[0]| > 0.0014) and where(|dec - tg[1]| > 0.0014)]: the "and"
\* of two non-empty tuples is the second one, so the declination alone decides
RECURSIVE TargetFilter(_, _)
TargetFilter(rows, targets) ==
    IF targets = <<>> THEN rows
    ELSE TargetFilter(
             MaskRows(rows, [i \in 1..Len(rows) |->
                                Abs(rows[i].dec - Head(targets).dec) > TargetBox]),
             Tail(targets))

\* d2d[q] of match_to_catalog_sky(fileRaDec, nthneighbor=2): the square of the
\* separation of row q from the nearest other row (at least two rows)
NeighbourSep2(rows, q) ==
    LET others == {Separation2(rows[q], rows[k]) : k \in (1..Len(rows)) \ {q}}
    IN  CHOOSE d \in others : \A e \in others : d <= e

\* mutant: the separation in model units is compared with the number of arcseconds
TooCloseNoUnit(sep2, closerejectd) ==
    sep2 < (closerejectd \div arcsecond) * (closerejectd \div arcsecond)

\* d2d[q] < closerejectd*arcsecond
TooClose(sep2, closerejectd) == sep2 < closerejectd * closerejectd

\* catReject, as a mask of the rows to keep
CrowdMask(rows, closerejectd) ==
    [q \in 1..Len(rows) |-> ~TooClose(NeighbourSep2(rows, q), closerejectd)]

\* the answers of the catalogue service: the sources it can list
CatEntries ==
    << [ra |-> 0,  dec |-> 0,  good |-> TRUE,  mag |-> 15],
       [ra |-> 6,  dec |-> 0,  good |-> TRUE,  mag |-> 14],
       [ra |-> 30, dec |-> 0,  good |-> TRUE,  mag |-> NaN],
       [ra |-> 60, dec |-> 45, good |-> TRUE,  mag |-> 16],
       [ra |-> 90, dec |-> 0,  good |-> FALSE, mag |-> 15] >>

\* a table lists up to MaxRows sources, in any order (a source may be listed twice)
Tables ==
    UNION {{[i \in 1..n |-> CatEntries[ix[i]]] : ix \in [1..n -> 1..Len(CatEntries)]} :
              n \in 1..MaxRows}

\* what Vizier.query_region can do: raise VOSError, raise another exception (a
\* timeout, a connection error), answer with no table, answer with a table
ServiceAnswers ==
    {[kind |-> k, rows |-> <<>>] : k \in {"VOSError", "timeout", "empty"}}
        \cup {[kind |-> "table", rows |-> t] : t \in Tables}

\* one pass of "for cat_name, opt in catalogues.items()" (lines 412-431), up to
\* the crowding loop of catalogue_call
CatStep ==
    /\ pc = "cal_select"
    /\ catIdx < Len(Catalogues(calArgs.filterCode))
    /\ LET cat_name == Catalogues(calArgs.filterCode)[catIdx + 1]
       IN  IF \/ coords.set
              \/ cat_name = "PanSTARRS" /\ calArgs.nopanstarrs
              \/ cat_name = "SDSS" /\ calArgs.nosdss
           THEN \* a catalogue was found already, or this one is skipped
                /\ catIdx' = catIdx + 1
                /\ UNCHANGED <<pc, err, queried, resp, crowdIter>>
           ELSE \E answer \in ServiceAnswers :
                /\ queried' = Append(queried,
                       [cat_name |-> cat_name, outcome |-> answer.kind,
                        usable |-> Len(QualityFilter(cat_name, answer.rows))])
                /\ IF answer.kind \in {"VOSError", "empty"}
                   THEN \* AstrosourceException, caught at line 430
                        /\ catIdx' = catIdx + 1
                        /\ UNCHANGED <<pc, err, resp, crowdIter>>
                   ELSE IF answer.kind = "timeout"
                   THEN \* neither VOSError nor AstrosourceException: not caught
                        /\ pc' = "error"
                        /\ err' = "Timeout"
                        /\ UNCHANGED <<catIdx, resp, crowdIter>>
                   ELSE /\ resp' = TargetFilter(QualityFilter(cat_name, answer.rows),
                                                calArgs.targets)
                        /\ crowdIter' = 0
                        /\ pc' = "crowd"
                        /\ UNCHANGED <<catIdx, err>>
    /\ UNCHANGED <<calArgs, coords, cat_used, max_sep>>
    /\ UNCHANGED fcVars
    /\ UNCHANGED zpVars

\* one pass of the crowding loop (lines 328-338); on the break, the rest of
\* catalogue_call and lines 422-427
CrowdStep ==
    /\ pc = "crowd"
    /\ crowdIter' = crowdIter + 1
    /\ LET cat_name == Catalogues(calArgs.filterCode)[catIdx + 1]
       IN  IF Len(resp) = 0
           THEN \* match_to_catalog_sky: the catalog cannot be length-0
                /\ pc' = "error"
                /\ err' = "ValueError"
                /\ UNCHANGED <<resp, coords, cat_used, max_sep, catIdx>>
           ELSE IF Len(resp) = 1
           THEN \* nthneighbor=2 of a catalog of one row: no such neighbour
                /\ pc' = "error"
                /\ err' = "IndexError"
                /\ UNCHANGED <<resp, coords, cat_used, max_sep, catIdx>>
           ELSE LET keep == CrowdMask(resp, calArgs.closerejectd)
                IN  IF \A q \in 1..Len(resp) : keep[q]
                    THEN /\ coords' = [set |-> TRUE, cat_name |-> cat_name, rows |-> resp]
                         /\ max_sep' = IF cat_name \in {"PanSTARRS", "APASS"}
                                       THEN 5 ELSE 3
                         /\ cat_used' = cat_name
                         /\ catIdx' = catIdx + 1
                         /\ pc' = "cal_select"
                         /\ UNCHANGED <<resp, err>>
                    ELSE /\ resp' = MaskRows(resp, keep)
                         /\ UNCHANGED <<pc, err, coords, cat_used, max_sep, catIdx>>
    /\ UNCHANGED <<calArgs, queried>>
    /\ UNCHANGED fcVars
    /\ UNCHANGED zpVars

\* lines 433-434: after the loop over the catalogues
CatDone ==
    /\ pc = "cal_select"
    /\ catIdx = Len(Catalogues(calArgs.filterCode))
    /\ IF ~coords.set
       THEN /\ pc' = "error"
            /\ err' = "AstrosourceException"
       ELSE /\ pc' = "cal_matched"
            /\ UNCHANGED err
    /\ UNCHANGED calVars
    /\ UNCHANGED zpVars
    /\ UNCHANGED fcVars

\* ------------------------------ find_comparisons_calibrated: calibration
\* lines 383-407: usedImages.txt, stdComps.csv, the mean position, the catalogues
LoadComps ==
    /\ pc = "cal_load"
    /\ IF Len(stdCompsCsv.rows) = 1
       THEN \* line 395 wraps the one-row table in a list; compFile[:,0] of a list
            /\ pc' = "error"
            /\ err' = "TypeError"
       ELSE /\ pc' = "cal_search"
            /\ UNCHANGED err
    /\ UNCHANGED <<fcVars, calVars, zpVars>>

\* a catalogue source at the position of row j of the photometry
OnSource(j) == [ra |-> StarRa(j), dec |-> 0, good |-> TRUE, mag |-> 15, emag |-> 20]

\* a catalogue source 2" from row j: inside 2.5", outside 1.5"
OffSource(j) == [ra |-> StarRa(j), dec |-> 2 * arcsecond, good |-> TRUE, mag |-> 14, emag |-> 30]

\* a catalogue source at the position of row j, without a magnitude in the filter
NoMagSource(j) == [ra |-> StarRa(j), dec |-> 0, good |-> TRUE, mag |-> NaN, emag |-> NaN]

\* the tables catalogue_call can return for a field of n stars: one source near
\* each star, so that no two sources are within closerejectd
SourcesNear(j) == {OnSource(j), OffSource(j), NoMagSource(j)}

StandardTables(n) ==
    {tb \in [1..n -> UNION {SourcesNear(j) : j \in 1..n}] :
        \A j \in 1..n : tb[j] \in SourcesNear(j)}

\* lines 411-434 when the first catalogue of the filter answers with a usable
\* table: the result of the loop over the catalogues
CatalogueFound ==
    /\ pc = "cal_search"
    /\ LET cats     == Catalogues(calArgs.filterCode)
           cat_name == cats[1]
       IN  \E tb \in StandardTables(Len(stdCompsCsv.rows)) :
               /\ coords' = [set |-> TRUE, cat_name |-> cat_name, rows |-> tb]
               /\ max_sep' = IF cat_name \in {"PanSTARRS", "APASS"} THEN 5 ELSE 3
               /\ cat_used' = cat_name
               /\ catIdx' = Len(cats)
               /\ queried' = <<[cat_name |-> cat_name, outcome |-> "table",
                                usable |-> Len(tb)]>>
    /\ pc' = "cal_matched"
    /\ UNCHANGED <<err, calArgs, resp, crowdIter>>
    /\ UNCHANGED <<fcVars, zpVars>>

\* lines 445-450: the rows of stdComps.csv, from row q on, whose nearest catalogue
\* source is nearer than max_sep and has a magnitude
RECURSIVE MatchedFrom(_, _, _, _)
MatchedFrom(comps, q, catRows, maxSep) ==
    IF q > Len(comps) THEN <<>>
    ELSE LET idxcomp == NearestIdx(comps[q], catRows)
             hit     == /\ Separation2(comps[q], catRows[idxcomp]) < maxSep * maxSep
                        /\ ~IsNaN(catRows[idxcomp].mag)
         IN  (IF hit
              THEN <<[ra |-> comps[q].ra, dec |-> comps[q].dec, std |-> comps[q].std,
                      mag |-> catRows[idxcomp].mag, emag |-> catRows[idxcomp].emag]>>
              ELSE <<>>)
             \o MatchedFrom(comps, q + 1, catRows, maxSep)

\* varimin=(min(asarray(calibStands)[:,2])) * variabilityMultiplier, tenths of mmag
Varimin(stands, variabilityMultiplier) ==
    VariabilityMax([q \in 1..Len(stands) |-> stands[q].std], variabilityMultiplier)

\* lines 464-469: delete the standards with calibStands[q][2] > varimin
DeleteAboveVarimin(stands, variabilityMultiplier) ==
    MaskRows(stands,
             [q \in 1..Len(stands) |->
                 ~Gt(10 * stands[q].std, Varimin(stands, variabilityMultiplier))])

\* lines 436-473: the calibration standards
MatchStands ==
    /\ pc = "cal_matched"
    /\ LET matched == MatchedFrom(stdCompsCsv.rows, 1, coords.rows, max_sep)
       IN  IF Len(matched) = 0
           THEN \* "Stars are too dim to calibrate to."
                /\ pc' = "error"
                /\ err' = "AstrosourceException"
                /\ UNCHANGED <<calibStands, calibStandsCsv>>
           ELSE LET kept == DeleteAboveVarimin(matched, calArgs.variabilityMultiplier)
                IN  /\ calibStands' = kept
                    /\ calibStandsCsv' = Savetxt(kept)
                    /\ pc' = "cal_frames"
                    /\ UNCHANGED err
    /\ UNCHANGED <<compUsedFile, frame, tempZP, calibCompUsed, calibrationErrors,
                   calibCompsUsedCsv>>
    /\ UNCHANGED <<fcVars, calVars>>

\* photFile[r,4]=-2.5*log10(photFile[r,4]) in mmag, for positive counts
InstMag(flux) == -((25 * Log10Table[flux]) \div 100)

\* numpy.median: NaN for no value and as soon as one value is NaN (halves are cut)
Median(xs) ==
    IF xs = <<>> \/ \E i \in 1..Len(xs) : IsNaN(xs[i]) THEN NaN
    ELSE Median2(xs) \div 2

\* lines 492-500: tempZP of frame q, the median over the standards of the
\* catalogue magnitude less the instrumental magnitude of the nearest row
ZeroPoint(stands, photFile, q) ==
    Median([s \in 1..Len(stands) |->
               1000 * stands[s].mag
                   - InstMag(photFile[NearestIdx(stands[s], photFile)].flux[q])])

\* photFile[r,4]=photFile[r,4]+tempZP
Shift(mag, zp) == IF IsNaN(zp) THEN NaN ELSE mag + zp

\* lines 516-529: the calibrated magnitudes, in frame q, of the comparisons used
LineCompUsed(used, photFile, q, zp) ==
    [r \in 1..Len(used) |->
        Shift(InstMag(photFile[NearestIdx(used[r], photFile)].flux[q]), zp)]

\* one pass of "for file in fileList" (lines 479-534)
CalibrateFrame ==
    /\ pc = "cal_frames"
    /\ frame < NumFrames
    /\ LET zp == ZeroPoint(calibStands, photlist, frame + 1)
       IN  /\ tempZP' = Append(tempZP, zp)
           /\ IF ~compUsedFile.bound
              THEN \* line 517: the name compUsedFile is not defined
                   /\ pc' = "error"
                   /\ err' = "NameError"
                   /\ UNCHANGED <<frame, calibCompUsed>>
              ELSE /\ calibCompUsed' =
                          Append(calibCompUsed,
                                 LineCompUsed(compUsedFile.rows, photlist, frame + 1, zp))
                   /\ frame' = frame + 1
                   /\ UNCHANGED <<pc, err>>
    /\ UNCHANGED <<compUsedFile, calibStands, calibStandsCsv, calibrationErrors,
                   calibCompsUsedCsv>>
    /\ UNCHANGED <<fcVars, calVars>>

\* calibCompUsed[:,r]: the magnitudes of comparison r in the frames
Column(ccu, r) == [q \in 1..Len(ccu) |-> ccu[q][r]]

\* len(calibCompUsed[0,:]): the length of the row of the first frame
FirstRowLength(ccu) == Len(ccu[1])

\* mutant: the number of rows of calibCompUsed, one for each frame
FrameCount(ccu) == Len(ccu)

\* the count under the square root of line 559: len(calibCompUsed[0,:])
ErrCalibCount(ccu) == FirstRowLength(ccu)

\* median / pow(n, 0.5), in mmag, from twice the median
OverSqrt(median2, n) == (median2 * 500) \div ISqrt(1000000 * n)

\* errCalib = median(sumStd) / pow((len(calibCompUsed[0,:])), 0.5)
ErrCalib(sumStd, ccu) ==
    IF IsNaN(Median(sumStd)) THEN NaN ELSE OverSqrt(Median2(sumStd), ErrCalibCount(ccu))

\* lines 541-579: the magnitudes of the comparisons and the calibration error
Finalise ==
    /\ pc = "cal_frames"
    /\ frame = NumFrames
    /\ LET used   == compUsedFile.rows
           sumStd == [r \in 1..FirstRowLength(calibCompUsed) |->
                         Std(Column(calibCompUsed, r))]
       IN  IF Len(used) = 1 /\ calibStands = <<>>
           THEN \* line 551: calibStands[0] of an empty table
                /\ pc' = "error"
                /\ err' = "IndexError"
                /\ UNCHANGED <<calibrationErrors, calibCompsUsedCsv>>
           ELSE /\ calibrationErrors' =
                       Savetxt(<<[cat_used |-> cat_used, medianStd |-> Median(sumStd),
                                  errCalib |-> ErrCalib(sumStd, calibCompUsed)]>>)
                /\ calibCompsUsedCsv' =
                       Savetxt([r \in 1..FirstRowLength(calibCompUsed) |->
                                   [ra |-> used[r].ra, dec |-> used[r].dec,
                                    std |-> used[r].std,
                                    mag |-> Median(Column(calibCompUsed, r)),
                                    emag |-> IF Len(used) = 1 THEN calibStands[1].emag
                                             ELSE sumStd[r]]])
                /\ pc' = "cal_done"
                /\ UNCHANGED err
    /\ UNCHANGED <<compUsedFile, calibStands, calibStandsCsv, frame, tempZP,
                   calibCompUsed>>
    /\ UNCHANGED <<fcVars, calVars>>

\* -------------------------------------------------------- specification
\* the photometry files: n rows, row j at StarRa(j), any flux in any frame
PhotLists ==
    UNION {{[j \in 1..n |-> [ra |-> StarRa(j), dec |-> 0, flux |-> fl[j]]] :
              fl \in [1..n -> [1..NumFrames -> FluxVals]]} : n \in 1..MaxStars}

OnStar(j) == [ra |-> StarRa(j), dec |-> 0]

InitRun ==
    /\ err = ""
    /\ targetFile = <<>>
    /\ comparisons = <<>>
    /\ fileCount = <<>>
    /\ starRejecter = <<>>
    /\ oldrejects = <<>>
    /\ stdCompStar = <<>>
    /\ sortStars = <<>>
    /\ variabilityMax = 0
    /\ iterations = 0
    /\ stdCompsCsv = NoFile
    /\ sortorder = <<>>
    /\ visited = 0
    /\ tempCountCounter = 0
    /\ finalCountCounter = 0
    /\ compFile = <<>>
    /\ compsUsedCsv = NoFile
    /\ num_comparisons = -1
    /\ catIdx = 0
    /\ queried = <<>>
    /\ resp = <<>>
    /\ crowdIter = 0
    /\ coords = NoCoords
    /\ cat_used = ""
    /\ max_sep = 0
    /\ compUsedFile = [bound |-> FALSE, rows |-> <<>>]
    /\ calibStands = <<>>
    /\ calibStandsCsv = NoFile
    /\ frame = 0
    /\ tempZP = <<>>
    /\ calibCompUsed = <<>>
    /\ calibrationErrors = NoFile
    /\ calibCompsUsedCsv = NoFile

\* find_comparisons on any fluxes; the variable-star catalogue answers nothing, or
\* with an entry exactly on the first row
Init ==
    /\ InitRun
    /\ pc = "start"
    /\ calArgs = <<>>
    /\ photlist \in PhotLists
    /\ \E sm \in StdMultipliers, vm \in VariabilityMultipliers :
          args = [stdMultiplier |-> sm, thresholdCounts |-> ThresholdCounts,
                  variabilityMultiplier |-> vm, removeTargets |-> TRUE,
                  acceptDistance |-> arcsecond, targets |-> <<OnStar(1)>>]
    /\ vsx \in {<<>>, <<OnStar(1)>>}
    /\ varStarRejectBound \in (IF vsx = <<>> THEN {FALSE} ELSE BOOLEAN)

Next == RemoveStarsTargets \/ Iterate \/ FccBegin \/ SelectStep \/ FccEnd

Spec == Init /\ [][Next]_vars

\* remove_stars_targets on any answer of the variable-star catalogue and several
\* target lists; the fluxes are the same for every star
VsxPositions ==
    {[ra |-> StarRa(1) + d, dec |-> 0] : d \in {0, 1, 2, 4}} \cup {OnStar(2)}

VsxAnswers == UNION {[1..n -> VsxPositions] : n \in 0..MaxVsx}

TargetLists ==
    {<<OnStar(1)>>, <<[ra |-> NaN, dec |-> NaN], OnStar(2)>>, <<[ra |-> 5, dec |-> 7]>>}

InitRST ==
    /\ InitRun
    /\ pc = "start"
    /\ calArgs = <<>>
    /\ \E n \in 1..MaxStars :
          photlist = [j \in 1..n |-> [ra |-> StarRa(j), dec |-> 0,
                                      flux |-> [q \in 1..NumFrames |-> 1]]]
    /\ \E ad \in AcceptDistances, rt \in BOOLEAN, tg \in TargetLists :
          args = [stdMultiplier |-> 25, thresholdCounts |-> ThresholdCounts,
                  variabilityMultiplier |-> 25, removeTargets |-> rt,
                  acceptDistance |-> ad, targets |-> tg]
    /\ vsx \in VsxAnswers
    /\ varStarRejectBound \in BOOLEAN

SpecRST == InitRST /\ [][Next]_vars

\* find_comparisons_calibrated, from the catalogue search on
CalTargetLists == {<<[ra |-> 0, dec |-> 40]>>, <<[ra |-> 200, dec |-> 200]>>}

InitCal ==
    /\ InitRun
    /\ pc = "cal_select"
    /\ photlist = <<>>
    /\ args = <<>>
    /\ vsx = <<>>
    /\ varStarRejectBound = FALSE
    /\ \E fc \in {"B", "gp"}, np \in BOOLEAN, ns \in BOOLEAN, tg \in CalTargetLists :
          /\ ~(np /\ ns)
          /\ calArgs = [filterCode |-> fc, nopanstarrs |-> np, nosdss |-> ns,
                        closerejectd |-> 5 * arcsecond, targets |-> tg]

NextCal == CatStep \/ CrowdStep \/ CatDone

SpecCal == InitCal /\ [][NextCal]_vars

\* find_comparisons_calibrated from its start, on the files find_comparisons
\* left for a field of up to MaxStars stars with positive counts
FrameFluxes == {[q \in 1..NumFrames |-> 1], [q \in 1..NumFrames |-> q]}

\* values of the parameter variabilityMultiplier of find_comparisons_calibrated,
\* in tenths
CalVariabilityMultipliers == {5, 20}

\* the first k rows of stdComps.csv in ascending order of score
LeastVariable(rows, k) ==
    LET o == Argsort([j \in 1..Len(rows) |-> rows[j].std])
    IN  [i \in 1..k |-> rows[o[i]]]

InitZP ==
    /\ pc = "cal_load"
    /\ err = ""
    /\ \E n \in 1..MaxStars : \E fl \in [1..n -> FrameFluxes] :
          photlist = [j \in 1..n |-> [ra |-> StarRa(j), dec |-> 0, flux |-> fl[j]]]
    /\ args = <<>>
    /\ vsx = <<>>
    /\ varStarRejectBound = FALSE
    /\ targetFile = <<>>
    /\ comparisons = <<>>
    /\ fileCount = <<>>
    /\ starRejecter = <<>>
    /\ oldrejects = <<>>
    /\ stdCompStar = <<>>
    /\ sortStars = <<>>
    /\ variabilityMax = 0
    /\ iterations = 0
    /\ stdCompsCsv = Savetxt(CalcSortStars(photlist, FileCount(photlist)))
    /\ sortorder = <<>>
    /\ visited = 0
    /\ tempCountCounter = 0
    /\ finalCountCounter = 0
    /\ compFile = <<>>
    /\ compsUsedCsv = NoFile
    /\ num_comparisons = -1
    /\ \E fc \in {"B", "gp"}, vm \in CalVariabilityMultipliers :
          calArgs = [filterCode |-> fc, nopanstarrs |-> FALSE, nosdss |-> FALSE,
                     closerejectd |-> 5 * arcsecond,
                     targets |-> <<[ra |-> 200, dec |-> 200]>>,
                     variabilityMultiplier |-> vm]
    /\ catIdx = 0
    /\ queried = <<>>
    /\ resp = <<>>
    /\ crowdIter = 0
    /\ coords = NoCoords
    /\ cat_used = ""
    /\ max_sep = 0
    /\ compUsedFile \in
          {[bound |-> FALSE, rows |-> <<>>]}
              \cup {[bound |-> TRUE, rows |-> LeastVariable(stdCompsCsv.rows, k)] :
                       k \in 1..Len(photlist)}
    /\ calibStands = <<>>
    /\ calibStandsCsv = NoFile
    /\ frame = 0
    /\ tempZP = <<>>
    /\ calibCompUsed = <<>>
    /\ calibrationErrors = NoFile
    /\ calibCompsUsedCsv = NoFile

NextZP == LoadComps \/ CatalogueFound \/ MatchStands \/ CalibrateFrame \/ Finalise

SpecZP == InitZP /\ [][NextZP]_vars

\* ---------------------------------------------------------------- claims
Positions(s) == {[ra |-> s[i].ra, dec |-> s[i].dec] : i \in 1..Len(s)}

\* the rejection loop was left by an exception
LoopFailed ==
    /\ pc = "error"
    /\ err \in {"IndexError: boolean index did not match", "ValueError", "SystemExit"}

\* C1: the rejection loop of find_comparisons always ends in the converged state,
\* by the equality of two consecutive masks and never by an error, also when a
\* star was rejected in some iteration.
C1_RejectionLoopConverges == ~LoopFailed

\* C2: the candidate set only shrinks: after remove_stars_targets and after every
\* iteration of the rejection loop the candidates are a subset of, and no more
\* than, the candidates before, and every accepted comparison is a candidate of
\* the converged set.
C2_CandidatesOnlyShrink ==
    [][LET before == IF pc = "start" THEN photlist ELSE comparisons
       IN  /\ Positions(comparisons') \subseteq Positions(before)
           /\ Len(comparisons') <= Len(before)
           /\ Positions(compFile') \subseteq Positions(comparisons')]_vars

\* a run that lost a candidate and accepted a comparison star
C2_Witness ==
    /\ pc = "done"
    /\ Len(comparisons) < Len(photlist)
    /\ compFile # <<>>

\* final_candidate_catalogue has started (stdComps.csv is written) and stopped
FccStopped == pc \in {"done", "error"} /\ stdCompsCsv.written

\* C3: every accepted candidate has a score strictly below variabilityMax, except
\* when exactly one candidate survives, and then that candidate is accepted.
C3_CeilingOrSingleSurvivor ==
    /\ \A k \in 1..Len(compFile) :
          Len(sortStars) = 1 \/ Lt(10 * compFile[k].std, variabilityMax)
    /\ (FccStopped /\ Len(sortStars) = 1 /\ ~IsNaN(sortStars[1].std))
          => compFile = sortStars

\* the reference-frame counts of candidate j: column 4 of its row in the first frame
RefFlux(j) ==
    LET i == CHOOSE i \in 1..Len(photlist) :
                 /\ photlist[i].ra = sortStars[j].ra
                 /\ photlist[i].dec = sortStars[j].dec
    IN  photlist[i].flux[1]

\* the counts of the first k candidates in the order of the walk
RECURSIVE PrefixCounts(_)
PrefixCounts(k) == IF k = 0 THEN 0 ELSE PrefixCounts(k - 1) + RefFlux(sortorder[k])

\* the k-th candidate of the walk is one the rule accepts
RuleAccepts(k) ==
    /\ PrefixCounts(k - 1) < args.thresholdCounts
    /\ \/ Len(sortorder) = 1
       \/ Lt(10 * sortStars[sortorder[k]].std, variabilityMax)

\* the candidates the rule accepts among the first k of the walk, in walk order
RECURSIVE AcceptedUpTo(_)
AcceptedUpTo(k) ==
    IF k = 0 THEN <<>>
    ELSE AcceptedUpTo(k - 1)
         \o (IF RuleAccepts(k) THEN <<sortStars[sortorder[k]]>> ELSE <<>>)

\* C4: the candidates are walked in ascending order of score; the running sum is
\* the sum of the reference-frame counts of every candidate walked so far, accepted
\* or not; a candidate is accepted only if the sum before it is strictly below
\* thresholdCounts; find_comparisons returns the number of accepted candidates.
C4_BudgetWalk ==
    pc \in {"select", "done"} =>
        /\ \A a, b \in 1..Len(sortorder) :
              a < b => ~Before([j \in 1..Len(sortStars) |-> sortStars[j].std],
                               sortorder[b], sortorder[a])
        /\ tempCountCounter = PrefixCounts(visited)
        /\ compFile = AcceptedUpTo(visited)
        /\ \A k \in 1..visited :
              (\E c \in 1..Len(compFile) : compFile[c] = sortStars[sortorder[k]])
                  => PrefixCounts(k - 1) < args.thresholdCounts
        /\ pc = "done" => /\ visited = Len(sortorder)
                          /\ num_comparisons = Len(AcceptedUpTo(Len(sortorder)))

\* a finished walk that accepted a candidate, refused one because the budget was
\* reached and counted a candidate the ceiling refused
C4_Witness ==
    /\ pc = "done"
    /\ compFile # <<>>
    /\ \E k \in 1..Len(sortorder) : PrefixCounts(k - 1) >= args.thresholdCounts
    /\ tempCountCounter > finalCountCounter

\* remove_stars_targets has returned and the loop has not started
Filtered == pc = "loop" /\ iterations = 0

\* C5: the candidate nearest to a variable-star catalogue entry, when it is nearer
\* than acceptDistance, is in no frame of what remove_stars_targets returns.
C5_VariableStarsRemoved ==
    Filtered =>
        \A t \in 1..Len(vsx) :
            LET i == NearestIdx(vsx[t], photlist)
            IN  Separation2(vsx[t], photlist[i]) < args.acceptDistance * args.acceptDistance
                    => [ra |-> photlist[i].ra, dec |-> photlist[i].dec]
                           \notin Positions(comparisons)

\* C6: with removeTargets, no star at the position of a target (NaN rows aside) is
\* a candidate after remove_stars_targets.
C6_TargetsRemoved ==
    (Filtered /\ args.removeTargets) =>
        \A z \in 1..Len(args.targets) :
            ~IsNaN(args.targets[z].ra) => args.targets[z] \notin Positions(comparisons)

\* C7: a NaN variability score ends the run with an error: the run is never past
\* an evaluation that gave a NaN score.
C7_NaNScoreIsFatal ==
    (\E j \in 1..Len(stdCompStar) : IsNaN(stdCompStar[j])) => pc = "error"

\* catalogue c is not switched off by nopanstarrs or nosdss
CatEnabled(c) ==
    /\ ~(c = "PanSTARRS" /\ calArgs.nopanstarrs)
    /\ ~(c = "SDSS" /\ calArgs.nosdss)

\* a catalogue after the one the loop is at is still to be tried
LaterCatalogueRemains ==
    \E k \in (catIdx + 2)..Len(Catalogues(calArgs.filterCode)) :
        CatEnabled(Catalogues(calArgs.filterCode)[k])

LastQuery == queried[Len(queried)]

\* C8: the catalogue used is the first enabled catalogue of the filter whose
\* quality-filtered result is non-empty; a catalogue with zero usable entries is
\* not selected and the next one is queried; after the selection no catalogue is
\* queried.
C8_FirstUsableCatalogue ==
    /\ \A k \in 1..Len(queried) : CatEnabled(queried[k].cat_name)
    /\ coords.set =>
          /\ LastQuery.cat_name = cat_used
          /\ LastQuery.usable > 0
          /\ \A k \in 1..(Len(queried) - 1) : queried[k].usable = 0
    /\ (queried # <<>> /\ LastQuery.outcome = "table" /\ LastQuery.usable = 0
            /\ LaterCatalogueRemains)
          => /\ pc # "error"
             /\ ~coords.set

\* C9: a failed catalogue query (no table, a lookup error, a timeout or transport
\* failure) does not end the run while a later catalogue remains, and the run
\* fails with the catalogue error only after the last catalogue.
C9_QueryFailureFallsBack ==
    /\ (queried # <<>> /\ LastQuery.outcome \in {"VOSError", "empty", "timeout"}
            /\ LaterCatalogueRemains)
          => pc # "error"
    /\ (pc = "error" /\ err = "AstrosourceException")
          => catIdx = Len(Catalogues(calArgs.filterCode))

NoClosePair(rows, closerejectd) ==
    \A i, j \in 1..Len(rows) :
        i # j => Separation2(rows[i], rows[j]) >= closerejectd * closerejectd

\* C10: every pass of the crowding loop that does not leave it deletes a row, so
\* the loop ends; when it is left, no two surviving entries are within closerejectd.
C10_CrowdingFixedPoint ==
    [][pc = "crowd" =>
          IF pc' = "crowd" THEN Len(resp') < Len(resp)
          ELSE /\ NoClosePair(resp', calArgs.closerejectd)
               /\ pc' # "error" => coords'.rows = resp']_vars

\* a catalogue whose crowding loop deleted rows and left at least two
C10_Witness ==
    /\ pc = "cal_select"
    /\ coords.set
    /\ crowdIter >= 2
    /\ Len(coords.rows) >= 2

\* the mask keeps every candidate
NothingRejected == \A i \in 1..Len(starRejecter) : starRejecter[i]

\* C13 as stated: when the first iteration of the rejection loop rejects no
\* candidate, the loop is converged after that first iteration, with the scores
\* evaluated once.
C13_FirstIterationConverges ==
    (iterations = 1 /\ pc # "error" /\ NothingRejected) => pc # "loop"

\* C13, amended: the first iteration never converges, because the mask of kept
\* candidates is compared with a previous mask that starts all False; when it
\* rejects no candidate the scores are evaluated a second time, with the same
\* candidates and the same values, and the loop converges in the second iteration.
C13_SecondIterationConverges ==
    [][pc = "loop" =>
          /\ iterations = 0 => pc' # "fcc"
          /\ (iterations = 1 /\ NothingRejected) =>
                 /\ pc' = "fcc"
                 /\ iterations' = 2
                 /\ comparisons' = comparisons
                 /\ stdCompStar' = stdCompStar]_vars

\* a loop that converged without a rejection, on several candidates with
\* different scores
C13_Witness ==
    /\ pc = "fcc"
    /\ iterations = 2
    /\ NothingRejected
    /\ Len(comparisons) = Len(photlist)
    /\ \E i, j \in 1..Len(stdCompStar) : Lt(stdCompStar[i], stdCompStar[j])

\* C14: when the converged candidate set is not empty, thresholdCounts > 0 and
\* variabilityMultiplier > 1, final_candidate_catalogue accepts at least one
\* candidate, so compsUsed.csv is never written empty; here for finite scores,
\* a minimum score of 0 included.
C14_LeastVariableAccepted ==
    ( /\ pc = "done"
      /\ Len(comparisons) > 0
      /\ \A j \in 1..Len(sortStars) : ~IsNaN(sortStars[j].std)
      /\ args.thresholdCounts > 0
      /\ args.variabilityMultiplier > 10 )
        => compsUsedCsv.rows # <<>>

\* C11: with no calibration standard left after the match radius, the NaN
\* magnitudes and the variability ceiling, find_comparisons_calibrated computes no
\* zero-point and does not finish: it ends with the error, whatever
\* variabilityMultiplier is (here with the comparisons-used table supplied).
C11_NoStandardsIsAnError ==
    (compUsedFile.bound /\ (tempZP # <<>> \/ pc = "cal_done")) => calibStands # <<>>

\* the scatter over the frames of each comparison used
SumStd == [r \in 1..Len(compUsedFile.rows) |-> Std(Column(calibCompUsed, r))]

\* median(sumStd) / sqrt(n) as the report holds it
ErrorOver(n) == IF IsNaN(Median(SumStd)) THEN NaN ELSE OverSqrt(Median2(SumStd), n)

WrittenErrCalib == calibrationErrors.rows[1].errCalib

\* C12 as stated: the calibration uncertainty in calibrationErrors.txt is the
\* median of the per-star scatter divided by the square root of the number of
\* frames (here for two comparison stars or more).
C12_ErrorOverFrames ==
    (pc = "cal_done" /\ Len(compUsedFile.rows) > 1) => WrittenErrCalib = ErrorOver(NumFrames)

\* C12, amended: the calibration uncertainty in calibrationErrors.txt is the
\* median of the per-star scatter divided by the square root of the number of
\* comparison stars used, whatever the number of frames.
C12_ErrorOverComparisons ==
    pc = "cal_done" => WrittenErrCalib = ErrorOver(Len(compUsedFile.rows))

\* a finished calibration of more comparison stars than frames whose scatter is
\* not zero
C12_Witness ==
    /\ pc = "cal_done"
    /\ Len(compUsedFile.rows) > NumFrames
    /\ Gt(Median(SumStd), 0)
    /\ WrittenErrCalib # ErrorOver(NumFrames)

====
